---- MODULE Spec2Model ----
(***************************************************************************)
(* instagram_enricher.py: update_sheet reads the rows of a spreadsheet,    *)
(* looks every username up with the external tool toutatis, parses the     *)
(* tool's standard output (get_instagram_data) and writes 13 fields back.  *)
(*                                                                         *)
(* A Python str is modelled as the sequence of its characters, each a      *)
(* one-character string, so that strip, split and the "in" test are        *)
(* computed on the characters.  The value of stdout.split('\n') is the     *)
(* sequence of the lines of stdout; no line holds a newline.               *)
(***************************************************************************)
EXTENDS Integers, Sequences, FiniteSets, TLC

VARIABLES
    sheet,         \* the spreadsheet from row 2 on: sheet[r] is row r+1, its cells B..S
    profile,       \* what toutatis prints for a profile when it succeeds
    runs_left,     \* invocations of the script still to come
    faults_left,   \* failures (tool, spreadsheet service, environment) still to come
    pc,            \* "idle", "read" (before line 95), "loop" (line 109), "done"
    test_mode,     \* --test
    force_update,  \* --force
    rows,          \* update_sheet's rows (lines 100, 107)
    i,             \* 1-based position in rows of the next row; idx = i + 1
    data,          \* what get_instagram_data returned at line 128
    event,         \* what the last iteration of the row loop did
    calls,         \* calls of get_instagram_data in this run
    requests,      \* subprocess.run calls (profile requests) in this run
    writes,        \* values().update calls issued in this run
    pauses,        \* batch pauses (line 114) taken in this run
    since,         \* profile requests since the last batch pause (or the start)
    lastWrite,     \* range and values of the last update call issued in this run
    sheet_error,   \* the spreadsheet call that raised in this run
    raised,        \* an exception left update_sheet
    written_prev,  \* sheet rows the previous run wrote
    written_now,   \* sheet rows this run wrote
    stdout,        \* the parser's input: the lines of result.stdout
    ln,            \* the next line of stdout the parser reads
    parsed,        \* get_instagram_data's data while it parses
    ppc            \* "parse", "returned"; "off" outside the parser's specification

vars ==
    << sheet, profile, runs_left, faults_left, pc, test_mode, force_update, rows, i,
       data, event, calls, requests, writes, pauses, since, lastWrite, sheet_error,
       raised, written_prev, written_now, stdout, ln, parsed, ppc >>

sheetVars ==
    << sheet, profile, runs_left, faults_left, pc, test_mode, force_update, rows, i,
       data, event, calls, requests, writes, pauses, since, lastWrite, sheet_error,
       raised, written_prev, written_now >>

parseVars ==
    << stdout, ln, parsed, ppc >>

----------------------------------------------------------------------------
(* Bounds *)

\* lines of stdout in the parser's specification
MaxLines == 2

\* tokens of the first line of stdout in the parser's specification
MaxLineLen == 5

----------------------------------------------------------------------------
(* Strings *)

\* the characters str.strip() removes that occur in the model
Whitespace ==
    {" ", "\t"}

\* s.strip(): s without the whitespace at its two ends
Strip(s) ==
    LET inner == { k \in 1..Len(s) : s[k] \notin Whitespace }
    IN  IF inner = {}
        THEN << >>
        ELSE SubSeq(s, CHOOSE k \in inner : \A j \in inner : k <= j,
                       CHOOSE k \in inner : \A j \in inner : k >= j)

\* s[k:k+len(sep)] == sep
At(s, k, sep) ==
    \A j \in 1..Len(sep) : s[k + j - 1] = sep[j]

\* sep in s
Contains(s, sep) ==
    \E k \in 1..(Len(s) - Len(sep) + 1) : At(s, k, sep)

\* s.find(sep) + 1, when sep in s
Find(s, sep) ==
    CHOOSE k \in 1..(Len(s) - Len(sep) + 1) :
        /\ At(s, k, sep)
        /\ \A j \in 1..(k - 1) : ~At(s, j, sep)

\* s.split(sep, 1) when sep in s: the text before the first sep and the text after it
SplitFirst(s, sep) ==
    LET k == Find(s, sep)
    IN  << SubSeq(s, 1, k - 1), SubSeq(s, k + Len(sep), Len(s)) >>

\* s.split(sep)
RECURSIVE Split(_, _)
Split(s, sep) ==
    IF ~Contains(s, sep)
    THEN << s >>
    ELSE LET p == SplitFirst(s, sep) IN << p[1] >> \o Split(p[2], sep)

Colon ==
    << ":" >>

\* ' | '
Pipe ==
    << " ", "|", " " >>

----------------------------------------------------------------------------
(* get_instagram_data: the parser, lines 64-83 *)

\* a Put that keeps the value a key already has (data.setdefault(k, v))
PutFirstWins(d, k, v) ==
    [x \in (DOMAIN d) \cup {k} |-> IF x \in DOMAIN d THEN d[x] ELSE v]

\* data[k] = v
Put(d, k, v) ==
    [x \in (DOMAIN d) \cup {k} |-> IF x = k THEN v ELSE d[x]]

\* data = {}
EmptyDict ==
    << >>

\* the loop over parts, lines 74-79
RECURSIVE ParseParts(_, _, _)
ParseParts(d, key, parts) ==
    IF parts = <<>>
    THEN d
    ELSE LET part == Head(parts)
             d1 == IF Contains(part, Colon)
                   THEN LET sub == SplitFirst(Strip(part), Colon)
                        IN  Put(d, Strip(sub[1]), Strip(sub[2]))
                   ELSE Put(d, key, Strip(part))
         IN  ParseParts(d1, key, Tail(parts))

\* a ParseLine that stores the value without value.strip()
ParseLineUnstripped(d, line) ==
    IF Contains(line, Colon)
    THEN LET kv == SplitFirst(line, Colon)
             key == Strip(kv[1])
             value == kv[2]
         IN  IF Contains(value, Pipe)
             THEN ParseParts(d, key, Split(value, Pipe))
             ELSE [x \in (DOMAIN d) \cup {key} |-> IF x = key THEN value ELSE d[x]]
    ELSE d

\* the body of the loop over lines, lines 66-81
ParseLine(d, line) ==
    IF Contains(line, Colon)
    THEN LET kv == SplitFirst(line, Colon)
             key == Strip(kv[1])
             value == Strip(kv[2])
         IN  IF Contains(value, Pipe)
             THEN ParseParts(d, key, Split(value, Pipe))
             ELSE Put(d, key, value)
    ELSE d

RECURSIVE ParseLines(_, _)
ParseLines(d, lines) ==
    IF lines = <<>> THEN d ELSE ParseLines(ParseLine(d, Head(lines)), Tail(lines))

\* lines 64-83: the mapping parsed from the lines of stdout
Parse(lines) ==
    ParseLines(EmptyDict, lines)

----------------------------------------------------------------------------
(* The 13 field names update_sheet reads from the record, lines 133-145 *)

\* 'Follower'
K_Follower ==
    <<"F","o","l","l","o","w","e","r">>

\* 'Following'
K_Following ==
    <<"F","o","l","l","o","w","i","n","g">>

\* 'Number of posts'
K_NumberOfPosts ==
    <<"N","u","m","b","e","r"," ","o","f"," ","p","o","s","t","s">>

\* 'Biography'
K_Biography ==
    <<"B","i","o","g","r","a","p","h","y">>

\* 'Full Name'
K_FullName ==
    <<"F","u","l","l"," ","N","a","m","e">>

\* 'Verified'
K_Verified ==
    <<"V","e","r","i","f","i","e","d">>

\* 'Is private Account'
K_IsPrivateAccount ==
    <<"I","s"," ","p","r","i","v","a","t","e"," ","A","c","c","o","u","n","t">>

\* 'Is buisness Account'
K_IsBuisnessAccount ==
    <<"I","s"," ","b","u","i","s","n","e","s","s"," ","A","c","c","o","u","n","t">>

\* 'userID'
K_UserID ==
    <<"u","s","e","r","I","D">>

\* 'IGTV posts'
K_IGTVPosts ==
    <<"I","G","T","V"," ","p","o","s","t","s">>

\* 'Linked WhatsApp'
K_LinkedWhatsApp ==
    <<"L","i","n","k","e","d"," ","W","h","a","t","s","A","p","p">>

\* 'Memorial Account'
K_MemorialAccount ==
    <<"M","e","m","o","r","i","a","l"," ","A","c","c","o","u","n","t">>

\* 'New Instagram user'
K_NewInstagramUser ==
    <<"N","e","w"," ","I","n","s","t","a","g","r","a","m"," ","u","s","e","r">>

----------------------------------------------------------------------------
(* Outputs of the lookup tool *)

\* the tool's report of a profile with every field, two pairs of them pipe-joined
\*   'Informations about : u'
\*   'userID : 9'
\*   'Full Name : n'
\*   'Verified : v | Is buisness Account : b'
\*   'Is private Account : p'
\*   'Follower : 120 | Following : 85'
\*   'Number of posts : 5'
\*   'IGTV posts : 0'
\*   'Biography : Hi | Love travel'
\*   'Linked WhatsApp : w'
\*   'Memorial Account : m'
\*   'New Instagram user : u'
FullOutput ==
    << <<"I","n","f","o","r","m","a","t","i","o","n","s"," ","a","b","o","u","t"," ",":"," ","u">>,
       <<"u","s","e","r","I","D"," ",":"," ","9">>,
       <<"F","u","l","l"," ","N","a","m","e"," ",":"," ","n">>,
       <<"V","e","r","i","f","i","e","d"," ",":"," ","v"," ","|"," ","I","s"," ","b","u","i","s","n","e","s","s"," ","A","c","c","o","u","n","t"," ",":"," ","b">>,
       <<"I","s"," ","p","r","i","v","a","t","e"," ","A","c","c","o","u","n","t"," ",":"," ","p">>,
       <<"F","o","l","l","o","w","e","r"," ",":"," ","1","2","0"," ","|"," ","F","o","l","l","o","w","i","n","g"," ",":"," ","8","5">>,
       <<"N","u","m","b","e","r"," ","o","f"," ","p","o","s","t","s"," ",":"," ","5">>,
       <<"I","G","T","V"," ","p","o","s","t","s"," ",":"," ","0">>,
       <<"B","i","o","g","r","a","p","h","y"," ",":"," ","H","i"," ","|"," ","L","o","v","e"," ","t","r","a","v","e","l">>,
       <<"L","i","n","k","e","d"," ","W","h","a","t","s","A","p","p"," ",":"," ","w">>,
       <<"M","e","m","o","r","i","a","l"," ","A","c","c","o","u","n","t"," ",":"," ","m">>,
       <<"N","e","w"," ","I","n","s","t","a","g","r","a","m"," ","u","s","e","r"," ",":"," ","u">> >>

\* a report whose only known field is userID (written to column O)
\*   'userID: 9'
\*   ''
LateOutput ==
    << <<"u","s","e","r","I","D",":"," ","9">>,
       <<>> >>

\* a report with no field the writer knows
\*   'Informations about: u'
UnknownOutput ==
    << <<"I","n","f","o","r","m","a","t","i","o","n","s"," ","a","b","o","u","t",":"," ","u">> >>

\* an empty standard output: ''.split('\n') is ['']
\*   ''
EmptyOutput ==
    << <<>> >>

----------------------------------------------------------------------------
(* Constants of the script *)

\* OUTPUT_RANGE_START = 'G'
OUTPUT_RANGE_START ==
    "G"

\* OUTPUT_RANGE_END = 'M'
OUTPUT_RANGE_END ==
    "M"

BATCH_SIZE == 10

\* the last row of the range update_sheet reads, line 97
LAST_READ_ROW == 100

----------------------------------------------------------------------------
(* Bounds of the spreadsheet's specifications *)

\* rows of the sheet
MaxRows == 2

\* invocations of the script
MaxRuns == 1

\* failures of the tool, of the spreadsheet service and of the environment
MaxFaults == 1

\* rows of a long sheet beyond BATCH_SIZE
MaxExtraRows == 1

----------------------------------------------------------------------------
(* The spreadsheet service *)

\* the columns of the sheet the script reads or writes, B to S; a row of the
\* sheet is the sequence of its cells in these columns
Cols ==
    << "B", "C", "D", "E", "F", "G", "H", "I", "J", "K", "L", "M", "N", "O", "P", "Q",
       "R", "S" >>

ColNo(c) ==
    CHOOSE k \in 1..Len(Cols) : Cols[k] = c

\* an empty cell, and the empty string
Empty ==
    << >>

\* f'B2:{OUTPUT_RANGE_END}100', line 97
ReadRange ==
    [c1 |-> "B", r1 |-> 2, c2 |-> OUTPUT_RANGE_END, r2 |-> LAST_READ_ROW]

\* f'{OUTPUT_RANGE_START}{idx}:S{idx}', line 149
WriteRange(idx) ==
    [c1 |-> OUTPUT_RANGE_START, r1 |-> idx, c2 |-> "S", r2 |-> idx]

\* values().get omits the empty cells at the end of a row ...
RECURSIVE TrimCells(_)
TrimCells(cells) ==
    IF cells = <<>> \/ cells[Len(cells)] # Empty
    THEN cells
    ELSE TrimCells(SubSeq(cells, 1, Len(cells) - 1))

\* ... and the empty rows at the end of the range
RECURSIVE TrimRows(_)
TrimRows(rs) ==
    IF rs = <<>> \/ rs[Len(rs)] # <<>>
    THEN rs
    ELSE TrimRows(SubSeq(rs, 1, Len(rs) - 1))

Min(a, b) ==
    IF a <= b THEN a ELSE b

\* sheet.values().get(range).execute().get('values', []), lines 95-100
GetValues(sh, rg) ==
    LET last == Min(Len(sh), rg.r2 - 1)
        first == rg.r1 - 1
    IN  TrimRows([k \in 1..(IF last >= first THEN last - first + 1 ELSE 0) |->
                     TrimCells(SubSeq(sh[k + first - 1], ColNo(rg.c1), ColNo(rg.c2)))])

\* the sheet after sheet.values().update(range, 'RAW', [vals]) succeeded, lines 150-155
Update(sh, rg, vals) ==
    LET lo == ColNo(rg.c1)
        hi == ColNo(rg.c2)
    IN  [sh EXCEPT ![rg.r1 - 1] =
            [c \in 1..Len(Cols) |->
                IF c >= lo /\ c <= hi /\ c - lo + 1 <= Len(vals)
                THEN vals[c - lo + 1]
                ELSE @[c]]]

----------------------------------------------------------------------------
(* update_sheet and get_instagram_data *)

\* a TestRows that keeps two rows (rows[:2])
TestRowsTwo(rs, test) ==
    IF test THEN SubSeq(rs, 1, IF Len(rs) < 2 THEN Len(rs) ELSE 2) ELSE rs

\* rows = rows[:1] in test mode, lines 105-107
TestRows(rs, test) ==
    IF test THEN SubSeq(rs, 1, Min(1, Len(rs))) ELSE rs

\* (idx - 2) % BATCH_SIZE == 0 and idx > 2, line 112
BatchDue(idx) ==
    (idx - 2) % BATCH_SIZE = 0 /\ idx > 2

\* a HasData that starts one column late (len(row) > 6 and any(row[6:]))
HasDataOffByOne(row) ==
    Len(row) > 6 /\ \E k \in 7..Len(row) : row[k] # << >>

\* has_data = len(row) > 5 and any(row[5:]), line 119
HasData(row) ==
    Len(row) > 5 /\ \E k \in 6..Len(row) : row[k] # Empty

\* data.get(k, '')
Get(d, k) ==
    IF k \in DOMAIN d THEN d[k] ELSE Empty

\* a RowValues with its first two columns exchanged
RowValuesSwapped(d) ==
    << Get(d, K_Following),
       Get(d, K_Follower),
       Get(d, K_NumberOfPosts),
       Get(d, K_Biography),
       Get(d, K_FullName),
       Get(d, K_Verified),
       Get(d, K_IsPrivateAccount),
       Get(d, K_IsBuisnessAccount),
       Get(d, K_UserID),
       Get(d, K_IGTVPosts),
       Get(d, K_LinkedWhatsApp),
       Get(d, K_MemorialAccount),
       Get(d, K_NewInstagramUser) >>

\* values, lines 132-146
RowValues(d) ==
    << Get(d, K_Follower),
       Get(d, K_Following),
       Get(d, K_NumberOfPosts),
       Get(d, K_Biography),
       Get(d, K_FullName),
       Get(d, K_Verified),
       Get(d, K_IsPrivateAccount),
       Get(d, K_IsBuisnessAccount),
       Get(d, K_UserID),
       Get(d, K_IGTVPosts),
       Get(d, K_LinkedWhatsApp),
       Get(d, K_MemorialAccount),
       Get(d, K_NewInstagramUser) >>

\* return None
None ==
    [none |-> TRUE, fields |-> EmptyDict]

\* return data
Some(d) ==
    [none |-> FALSE, fields |-> d]

\* a get_instagram_data that does not look at the return code
GetInstagramDataIgnoresExit(username, result, out) ==
    IF username = Empty
    THEN None
    ELSE IF result = "exception" THEN None ELSE Some(Parse(out))

\* get_instagram_data, lines 46-87; result is how the subprocess ended:
\* "ok" (returncode 0), "nonzero", "exception" (subprocess.run raised)
GetInstagramData(username, result, out) ==
    IF username = Empty
    THEN None
    ELSE IF result # "ok" THEN None ELSE Some(Parse(out))

\* if data:
Truthy(d) ==
    ~d.none /\ d.fields # EmptyDict

NoWrite ==
    [range |-> [c1 |-> "", r1 |-> 0, c2 |-> "", r2 |-> 0], values |-> <<>>]

\* the part of an iteration every path through it shares: the batch pause of
\* lines 112-114 and the step to the next row
Iterate(requested) ==
    /\ pc = "loop"
    /\ i <= Len(rows)
    /\ pauses' = IF BatchDue(i + 1) THEN pauses + 1 ELSE pauses
    /\ since' = (IF BatchDue(i + 1) THEN 0 ELSE since) + (IF requested THEN 1 ELSE 0)
    /\ i' = i + 1
    /\ UNCHANGED << profile, runs_left, pc, test_mode, force_update, rows, raised,
                    written_prev >>
    /\ UNCHANGED parseVars

\* the row passes line 121: it is looked up
Wanted(row) ==
    /\ Len(row) > 0
    /\ ~(HasData(row) /\ ~force_update)

\* python update_sheet ...: __main__, lines 175-186
StartRun ==
    /\ pc \in {"idle", "done"}
    /\ runs_left > 0
    /\ runs_left' = runs_left - 1
    /\ pc' = "read"
    /\ test_mode' \in BOOLEAN
    /\ force_update' \in BOOLEAN
    /\ rows' = <<>>
    /\ i' = 1
    /\ data' = None
    /\ event' = "start"
    /\ calls' = 0
    /\ requests' = 0
    /\ writes' = 0
    /\ pauses' = 0
    /\ since' = 0
    /\ lastWrite' = NoWrite
    /\ sheet_error' = "none"
    /\ raised' = FALSE
    /\ written_prev' = written_now
    /\ written_now' = {}
    /\ UNCHANGED << sheet, profile, faults_left >>
    /\ UNCHANGED parseVars

\* get_google_sheets_service raises ValueError outside the try, lines 29-30, 90
MissingCredentials ==
    /\ pc = "read"
    /\ faults_left > 0
    /\ faults_left' = faults_left - 1
    /\ raised' = TRUE
    /\ pc' = "done"
    /\ event' = "fatal"
    /\ UNCHANGED << sheet, profile, runs_left, test_mode, force_update, rows, i, data,
                    calls, requests, writes, pauses, since, lastWrite, sheet_error,
                    written_prev, written_now >>
    /\ UNCHANGED parseVars

\* lines 95-107, the read succeeds and returns rows
ReadSheet ==
    /\ pc = "read"
    /\ LET fetched == GetValues(sheet, ReadRange)
       IN  /\ fetched # <<>>
           /\ rows' = TestRows(fetched, test_mode)
    /\ pc' = "loop"
    /\ i' = 1
    /\ event' = "read"
    /\ UNCHANGED << sheet, profile, runs_left, faults_left, test_mode, force_update, data,
                    calls, requests, writes, pauses, since, lastWrite, sheet_error,
                    raised, written_prev, written_now >>
    /\ UNCHANGED parseVars

\* lines 101-103, no values in the range
ReadEmpty ==
    /\ pc = "read"
    /\ GetValues(sheet, ReadRange) = <<>>
    /\ pc' = "done"
    /\ event' = "empty"
    /\ UNCHANGED << sheet, profile, runs_left, faults_left, test_mode, force_update, rows,
                    i, data, calls, requests, writes, pauses, since, lastWrite,
                    sheet_error, raised, written_prev, written_now >>
    /\ UNCHANGED parseVars

\* lines 95-98 raise: the handler of lines 165-166
ReadRaises ==
    /\ pc = "read"
    /\ faults_left > 0
    /\ faults_left' = faults_left - 1
    /\ sheet_error' = "read"
    /\ pc' = "done"
    /\ event' = "readraise"
    /\ UNCHANGED << sheet, profile, runs_left, test_mode, force_update, rows, i, data,
                    calls, requests, writes, pauses, since, lastWrite, raised,
                    written_prev, written_now >>
    /\ UNCHANGED parseVars

\* row[0] raises IndexError on an empty row, line 116: the handler of lines 161-163
RowError ==
    /\ Iterate(FALSE)
    /\ Len(rows[i]) = 0
    /\ event' = "rowerror"
    /\ UNCHANGED << sheet, faults_left, data, calls, requests, writes, lastWrite,
                    sheet_error, written_now >>

\* lines 121-123
SkipRow ==
    /\ Iterate(FALSE)
    /\ Len(rows[i]) > 0
    /\ HasData(rows[i]) /\ ~force_update
    /\ event' = "skip"
    /\ UNCHANGED << sheet, faults_left, data, calls, requests, writes, lastWrite,
                    sheet_error, written_now >>

\* lines 125-130 with a lookup that fails: a non-zero exit (lines 59-61) or an
\* exception of subprocess.run (lines 85-87)
LookupFails ==
    /\ pc = "loop" /\ i <= Len(rows)
    /\ Wanted(rows[i])
    /\ faults_left > 0
    /\ LET username == Strip(rows[i][1])
       IN  /\ username # Empty
           /\ \E result \in {"nonzero", "exception"} :
                 /\ data' = GetInstagramData(username, result, profile)
                 /\ event' = result
    /\ Iterate(TRUE)
    /\ faults_left' = faults_left - 1
    /\ calls' = calls + 1
    /\ requests' = requests + 1
    /\ UNCHANGED << sheet, writes, lastWrite, sheet_error, written_now >>

\* lines 125-130 with a lookup that ends normally and returns nothing to write:
\* an empty username (lines 47-49) or an output without any key: value line
LookupNoData ==
    /\ pc = "loop" /\ i <= Len(rows)
    /\ Wanted(rows[i])
    /\ \E username \in { Strip(rows[i][1]) } :
       \E d \in { GetInstagramData(username, "ok", profile) } :
           /\ ~Truthy(d)
           /\ data' = d
           /\ event' = IF username = Empty THEN "blank" ELSE "nodata"
           /\ requests' = IF username = Empty THEN requests ELSE requests + 1
           /\ Iterate(username # Empty)
    /\ calls' = calls + 1
    /\ UNCHANGED << sheet, faults_left, writes, lastWrite, sheet_error, written_now >>

\* lines 125-159, the update succeeds
WriteRow ==
    /\ pc = "loop" /\ i <= Len(rows)
    /\ Wanted(rows[i])
    /\ \E username \in { Strip(rows[i][1]) }, idx \in { i + 1 } :
       \E d \in { GetInstagramData(username, "ok", profile) } :
           /\ Truthy(d)
           /\ data' = d
           /\ lastWrite' = [range |-> WriteRange(idx), values |-> RowValues(d.fields)]
           /\ sheet' = Update(sheet, WriteRange(idx), RowValues(d.fields))
           /\ written_now' = written_now \cup {idx}
    /\ Iterate(TRUE)
    /\ event' = "write"
    /\ calls' = calls + 1
    /\ requests' = requests + 1
    /\ writes' = writes + 1
    /\ UNCHANGED << faults_left, sheet_error >>

\* a WriteRaises without the handler of lines 161-163: the error ends the run
WriteRaisesAborts ==
    /\ pc = "loop" /\ i <= Len(rows)
    /\ Wanted(rows[i])
    /\ faults_left > 0
    /\ \E username \in { Strip(rows[i][1]) }, idx \in { i + 1 } :
       \E d \in { GetInstagramData(username, "ok", profile) } :
           /\ Truthy(d)
           /\ data' = d
           /\ lastWrite' = [range |-> WriteRange(idx), values |-> RowValues(d.fields)]
    /\ pauses' = IF BatchDue(i + 1) THEN pauses + 1 ELSE pauses
    /\ since' = (IF BatchDue(i + 1) THEN 0 ELSE since) + 1
    /\ pc' = "done"
    /\ faults_left' = faults_left - 1
    /\ event' = "writeraise"
    /\ sheet_error' = "write"
    /\ calls' = calls + 1
    /\ requests' = requests + 1
    /\ writes' = writes + 1
    /\ UNCHANGED << sheet, profile, runs_left, test_mode, force_update, rows, i, raised,
                    written_prev, written_now >>
    /\ UNCHANGED parseVars

\* lines 125-155, the update raises: the handler of lines 161-163
WriteRaises ==
    /\ pc = "loop" /\ i <= Len(rows)
    /\ Wanted(rows[i])
    /\ faults_left > 0
    /\ \E username \in { Strip(rows[i][1]) }, idx \in { i + 1 } :
       \E d \in { GetInstagramData(username, "ok", profile) } :
           /\ Truthy(d)
           /\ data' = d
           /\ lastWrite' = [range |-> WriteRange(idx), values |-> RowValues(d.fields)]
           \* the service may have applied the update before the call failed
           /\ sheet' \in {sheet, Update(sheet, WriteRange(idx), RowValues(d.fields))}
    /\ Iterate(TRUE)
    /\ faults_left' = faults_left - 1
    /\ event' = "writeraise"
    /\ sheet_error' = "write"
    /\ calls' = calls + 1
    /\ requests' = requests + 1
    /\ writes' = writes + 1
    /\ UNCHANGED written_now

\* the loop of line 109 ends
FinishLoop ==
    /\ pc = "loop"
    /\ i > Len(rows)
    /\ pc' = "done"
    /\ event' = "finish"
    /\ UNCHANGED << sheet, profile, runs_left, faults_left, test_mode, force_update, rows,
                    i, data, calls, requests, writes, pauses, since, lastWrite,
                    sheet_error, raised, written_prev, written_now >>
    /\ UNCHANGED parseVars

----------------------------------------------------------------------------
(* The sheets the specifications start from *)

\* a cell with a value
X ==
    << "x" >>

\* the row with username u in column B and value v in column col ("" for none)
RowWith(u, col, v) ==
    [c \in 1..Len(Cols) |-> IF c = 1 THEN u ELSE IF Cols[c] = col THEN v ELSE Empty]

\* a username not looked up yet
PlainRow ==
    RowWith(<< "u" >>, "", Empty)

RowTemplates ==
    { PlainRow,
      RowWith(<< " ", "u", " " >>, "F", X),   \* a padded username, a value before column G
      RowWith(<< "u" >>, "G", X),               \* enriched: the first output column
      RowWith(Empty, "M", X),                   \* no username; the last column of the read
      RowWith(<< "u" >>, "N", X),               \* enriched: a value in column N only
      RowWith(Empty, "", Empty) }               \* an empty row

Outputs ==
    { FullOutput, LateOutput, UnknownOutput, EmptyOutput }

SeqsUpTo(S, n) ==
    UNION { [1..k -> S] : k \in 0..n }

\* sheets of at most MaxRows rows of any kind
Sheets ==
    SeqsUpTo(RowTemplates, MaxRows) \ { <<>> }

\* sheets of up to BATCH_SIZE + MaxExtraRows rows, all plain but one
BatchSheets ==
    { [k \in 1..n |-> IF k = at THEN t ELSE PlainRow] :
        n \in 1..(BATCH_SIZE + MaxExtraRows),
        at \in 1..(BATCH_SIZE + MaxExtraRows),
        t \in { PlainRow, RowWith(<< "u" >>, "G", X), RowWith(Empty, "", Empty) } }

InitRun ==
    /\ pc = "idle"
    /\ test_mode = FALSE
    /\ force_update = FALSE
    /\ rows = <<>>
    /\ i = 1
    /\ data = None
    /\ event = "none"
    /\ calls = 0
    /\ requests = 0
    /\ writes = 0
    /\ pauses = 0
    /\ since = 0
    /\ lastWrite = NoWrite
    /\ sheet_error = "none"
    /\ raised = FALSE
    /\ written_prev = {}
    /\ written_now = {}

ParserOff ==
    /\ stdout = <<>>
    /\ ln = 1
    /\ parsed = EmptyDict
    /\ ppc = "off"

Init ==
    /\ sheet \in Sheets
    /\ profile \in Outputs
    /\ runs_left = MaxRuns
    /\ faults_left = MaxFaults
    /\ InitRun
    /\ ParserOff

\* the script is run once more over the sheet it leaves
InitRerun ==
    /\ sheet \in Sheets
    /\ profile \in Outputs
    /\ runs_left = MaxRuns + 1
    /\ faults_left = MaxFaults
    /\ InitRun
    /\ ParserOff

InitBatch ==
    /\ sheet \in BatchSheets
    /\ profile \in { LateOutput, EmptyOutput }
    /\ runs_left = MaxRuns
    /\ faults_left = MaxFaults
    /\ InitRun
    /\ ParserOff

Next ==
    \/ StartRun
    \/ MissingCredentials
    \/ ReadSheet
    \/ ReadEmpty
    \/ ReadRaises
    \/ RowError
    \/ SkipRow
    \/ LookupFails
    \/ LookupNoData
    \/ WriteRow
    \/ WriteRaises
    \/ FinishLoop

\* a run of the script over a short sheet of any rows
Spec ==
    Init /\ [][Next]_vars

\* a run of the script, and one more over the sheet the first has left
SpecRerun ==
    InitRerun /\ [][Next]_vars

\* a run of the script over a sheet long enough for a batch pause
SpecBatch ==
    InitBatch /\ [][Next]_vars

----------------------------------------------------------------------------
(* The parser of get_instagram_data run on every bounded output *)

Tokens ==
    { << "a" >>, << "b" >>, Colon, << " " >>, Pipe }

RECURSIVE Flatten(_)
Flatten(ts) ==
    IF ts = <<>> THEN <<>> ELSE Head(ts) \o Flatten(Tail(ts))

\* the lines of at most n tokens
Lines(n) ==
    { Flatten(ts) : ts \in SeqsUpTo(Tokens, n) }

\* 'a:b' and 'b: a | a:b', the lines that may follow the first
FollowLines ==
    { << "a", ":", "b" >>,
      << "b", ":", " ", "a", " ", "|", " ", "a", ":", "b" >> }

\* 'Follower: 120 | Following: 85'
FollowerLine ==
    <<"F","o","l","l","o","w","e","r",":"," ","1","2","0"," ","|"," ","F","o","l","l","o","w","i","n","g",":"," ","8","5">>

\* 'Biography: Hi | Love travel'
BiographyLine ==
    <<"B","i","o","g","r","a","p","h","y",":"," ","H","i"," ","|"," ","L","o","v","e"," ","t","r","a","v","e","l">>

Texts ==
    { << l >> \o fs : l \in Lines(MaxLineLen), fs \in SeqsUpTo(FollowLines, MaxLines - 1) }
        \cup { << FollowerLine >>, << BiographyLine >> }

SheetOff ==
    /\ sheet = <<>>
    /\ profile = EmptyOutput
    /\ runs_left = 0
    /\ faults_left = 0
    /\ InitRun

InitParse ==
    /\ stdout \in Texts
    /\ ln = 1
    /\ parsed = EmptyDict
    /\ ppc = "parse"
    /\ SheetOff

\* one iteration of the loop of line 65 on a line with a colon, lines 66-81
ColonLine ==
    /\ ppc = "parse"
    /\ ln <= Len(stdout)
    /\ Contains(stdout[ln], Colon)
    /\ parsed' = ParseLine(parsed, stdout[ln])
    /\ ln' = ln + 1
    /\ UNCHANGED << stdout, ppc >>
    /\ UNCHANGED sheetVars

\* one iteration of the loop of line 65 on a line without a colon, line 66
OtherLine ==
    /\ ppc = "parse"
    /\ ln <= Len(stdout)
    /\ ~Contains(stdout[ln], Colon)
    /\ parsed' = ParseLine(parsed, stdout[ln])
    /\ ln' = ln + 1
    /\ UNCHANGED << stdout, ppc >>
    /\ UNCHANGED sheetVars

\* return data, line 83
ReturnData ==
    /\ ppc = "parse"
    /\ ln > Len(stdout)
    /\ ppc' = "returned"
    /\ UNCHANGED << stdout, ln, parsed >>
    /\ UNCHANGED sheetVars

NextParse ==
    \/ ColonLine
    \/ OtherLine
    \/ ReturnData

SpecParse ==
    InitParse /\ [][NextParse]_vars

----------------------------------------------------------------------------
(* Properties *)

\* a step of the row loop over the row at position i of rows (sheet row i + 1)
RowStep ==
    pc = "loop" /\ i <= Len(rows) /\ i' = i + 1

\* the row has a non-empty cell at a 0-based index >= 5
TrailingCell(row) ==
    \E k \in 1..Len(row) : k - 1 >= 5 /\ row[k] # Empty

\* nothing is looked up and nothing is written in this step
NoLookupNoWrite ==
    /\ calls' = calls
    /\ requests' = requests
    /\ writes' = writes
    /\ sheet' = sheet
    /\ lastWrite' = lastWrite

\* the loop leaves a row only for the next one, and ends only after the last
LoopVisitsEveryRow ==
    /\ pc = "loop" /\ pc' = "loop" => i' = i + 1 /\ rows' = rows
    /\ pc = "loop" /\ pc' # "loop" => i > Len(rows)

C2_FailedLookupContinues ==
    [][/\ RowStep /\ event' \in {"nonzero", "exception"} =>
            /\ data'.none
            /\ writes' = writes
            /\ sheet' = sheet
            /\ lastWrite' = lastWrite
            /\ ~raised'
            /\ pc' = "loop"
       /\ LoopVisitsEveryRow]_vars

\* in the first run the lookup of row 2 failed and row 3 has then been written
C2_Witness ==
    /\ runs_left = MaxRuns - 1
    /\ faults_left < MaxFaults
    /\ sheet_error = "none"
    /\ ~raised
    /\ calls = 2
    /\ event = "write"
    /\ written_now = {3}
    /\ i = 3

\* C3 as claimed: once a spreadsheet call of the run has raised, the read or a
\* write, no row is looked up or written in that run any more.
C3_AnySheetErrorAborts ==
    [][sheet_error # "none" /\ runs_left' = runs_left => NoLookupNoWrite]_vars

\* C3 as amended: a read that raises ends the run with no row looked up or
\* written; a write that raises is caught for its row, and the loop goes on
\* with the next row and ends only after the last row.
C3_ReadAbortsWriteContinues ==
    /\ [](sheet_error = "read" => pc = "done" /\ calls = 0 /\ requests = 0 /\ writes = 0)
    /\ [][/\ event' = "readraise" /\ pc = "read" => pc' = "done" /\ sheet' = sheet
          /\ RowStep /\ event' = "writeraise" => pc' = "loop" /\ ~raised'
          /\ LoopVisitsEveryRow]_vars

\* the write of row 2 raised and row 3 has then been looked up and written
C3_Witness ==
    /\ sheet_error = "write"
    /\ event = "write"
    /\ written_now = {3}
    /\ calls = 2

\* the fixed order of the 13 output columns G..S
OutputOrder ==
    << K_Follower, K_Following, K_NumberOfPosts, K_Biography, K_FullName, K_Verified,
       K_IsPrivateAccount, K_IsBuisnessAccount, K_UserID, K_IGTVPosts, K_LinkedWhatsApp,
       K_MemorialAccount, K_NewInstagramUser >>

\* C4: every write for the row at position p = i - 1 targets G(p+2):S(p+2) and
\* carries 13 values: in the fixed order, the record's value of each field
\* unchanged, or the empty string when the record lacks the field; a write
\* that succeeds changes these 13 cells of the sheet and no other.
C4_WriteLayout ==
    [][writes' = writes + 1 =>
          /\ lastWrite'.range = [c1 |-> "G", r1 |-> (i - 1) + 2, c2 |-> "S", r2 |-> (i - 1) + 2]
          /\ Len(lastWrite'.values) = 13
          /\ ~data'.none
          /\ \A k \in 1..13 :
                lastWrite'.values[k] =
                    IF OutputOrder[k] \in DOMAIN data'.fields
                    THEN data'.fields[OutputOrder[k]]
                    ELSE << >>
          /\ event' = "write" =>
                \A r \in 1..Len(sheet), c \in 1..Len(Cols) :
                    sheet'[r][c] = IF r = i /\ c >= 6 /\ c <= 18
                                   THEN lastWrite'.values[c - 5]
                                   ELSE sheet[r][c]]_vars

\* the second row has been written with a record that has all 13 fields
C4_Witness ==
    /\ event = "write"
    /\ lastWrite.range.r1 = 3
    /\ \A k \in 1..13 : OutputOrder[k] \in DOMAIN data.fields /\ lastWrite.values[k] # Empty
    /\ \A j, k \in 1..13 : j # k => lastWrite.values[j] # lastWrite.values[k]

\* C8: in test mode only the first fetched row is processed: at most one lookup
\* and one write in the run, the write targets sheet row 2, and no other row of
\* the sheet changes.
C8_TestModeFirstRowOnly ==
    /\ [](test_mode =>
            /\ calls <= 1 /\ requests <= 1 /\ writes <= 1
            /\ i <= 2
            /\ written_now \subseteq {2}
            /\ writes = 1 => lastWrite.range.r1 = 2 /\ lastWrite.range.r2 = 2)
    /\ [][test_mode /\ runs_left' = runs_left =>
            \A r \in 2..Len(sheet) : sheet'[r] = sheet[r]]_vars

\* a test run over a sheet with two usernames has ended, the first row written
C8_Witness ==
    /\ test_mode
    /\ pc = "done"
    /\ event = "finish"
    /\ written_now = {2}
    /\ Len(sheet) = 2
    /\ sheet[2][1] # Empty
    /\ ~TrailingCell(sheet[2])

\* C7 as claimed: the read spans B..S, so a row with a non-empty value in any
\* of the output columns G..S is skipped when the force flag is not set.
C7_OutputColumnsSeen ==
    [][RowStep /\ ~force_update
          /\ (\E c \in ColNo("G")..ColNo("S") : sheet[i][c] # Empty) =>
             NoLookupNoWrite /\ event' = "skip"]_vars

\* C9 as claimed: exactly BATCH_SIZE profile requests precede the first batch
\* pause and separate two consecutive batch pauses, whatever rows were skipped
\* (stated for the sheets every row of which holds a username).
C9_PauseEveryBatchOfRequests ==
    [][pauses' = pauses + 1 /\ (\A k \in 1..Len(rows) : Len(rows[k]) > 0) =>
          since = BATCH_SIZE]_vars

\* C10 as claimed: a row the previous run enriched (it wrote the row, and at
\* least one of the 13 values written is not empty) is neither looked up nor
\* written by a following run without the force flag.
C10_RerunSkipsWrittenRows ==
    [][RowStep /\ ~force_update /\ (i + 1) \in written_prev
          /\ (\E c \in ColNo("G")..ColNo("S") : sheet[i][c] # Empty) =>
             NoLookupNoWrite /\ event' = "skip"]_vars

----------------------------------------------------------------------------
(* Properties of the parser *)

\* the line has the form key: value
KeyValue(line) ==
    \E k \in 1..Len(line) : line[k] = ":"

ColonPos(line) ==
    CHOOSE k \in 1..Len(line) : line[k] = ":" /\ \A j \in 1..(k - 1) : line[j] # ":"

\* the text before the first colon, and the text after it
RawKey(line) ==
    SubSeq(line, 1, ColonPos(line) - 1)

RawValue(line) ==
    SubSeq(line, ColonPos(line) + 1, Len(line))

\* s without the blanks at its left end, at its right end, and at both
RECURSIVE TrimLeft(_)
TrimLeft(s) ==
    IF s # << >> /\ Head(s) = " " THEN TrimLeft(Tail(s)) ELSE s

RECURSIVE TrimRight(_)
TrimRight(s) ==
    IF s # << >> /\ s[Len(s)] = " " THEN TrimRight(SubSeq(s, 1, Len(s) - 1)) ELSE s

Trimmed(s) ==
    TrimRight(TrimLeft(s))

\* the key and the trimmed value of a key: value line
KeyOf(line) ==
    Trimmed(RawKey(line))

ValueOf(line) ==
    Trimmed(RawValue(line))

\* the assignment a sub-part of a line with outer key K makes
PartAssignment(K, part) ==
    IF KeyValue(part)
    THEN << Trimmed(RawKey(part)), Trimmed(RawValue(part)) >>
    ELSE << K, Trimmed(part) >>

\* the assignments a line makes, left to right
Assignments(line) ==
    IF ~KeyValue(line)
    THEN << >>
    ELSE IF Contains(ValueOf(line), Pipe)
         THEN LET parts == Split(ValueOf(line), Pipe)
              IN  [j \in 1..Len(parts) |-> PartAssignment(KeyOf(line), parts[j])]
         ELSE << << KeyOf(line), ValueOf(line) >> >>

AssignedKeys(line) ==
    { Assignments(line)[j][1] : j \in 1..Len(Assignments(line)) }

\* C5 as claimed: the mapping returned holds, for every key: value line of the
\* output, that line's key mapped to that line's trimmed value.
C5_EveryLineKept ==
    ppc = "returned" =>
        \A k \in 1..Len(stdout) :
            KeyValue(stdout[k]) =>
                /\ KeyOf(stdout[k]) \in DOMAIN parsed
                /\ parsed[KeyOf(stdout[k])] = ValueOf(stdout[k])

\* C5 as amended: the mapping returned holds the key of a key: value line mapped
\* to the line's trimmed value when that value does not contain ' | ' and no
\* later line assigns the key.
C5_UnsplitLastLineKept ==
    ppc = "returned" =>
        \A k \in 1..Len(stdout) :
            /\ KeyValue(stdout[k])
            /\ ~Contains(ValueOf(stdout[k]), Pipe)
            /\ \A m \in (k + 1)..Len(stdout) : KeyOf(stdout[k]) \notin AssignedKeys(stdout[m])
            => /\ KeyOf(stdout[k]) \in DOMAIN parsed
               /\ parsed[KeyOf(stdout[k])] = ValueOf(stdout[k])

\* a padded key: value line has been parsed, and a later line assigned other keys
C5_Witness ==
    /\ ppc = "returned"
    /\ Len(stdout) = 2
    /\ KeyValue(stdout[1])
    /\ ~Contains(ValueOf(stdout[1]), Pipe)
    /\ KeyOf(stdout[1]) # << >>
    /\ ValueOf(stdout[1]) # << >>
    /\ ValueOf(stdout[1]) # RawValue(stdout[1])
    /\ AssignedKeys(stdout[2]) # {}
    /\ KeyOf(stdout[1]) \notin AssignedKeys(stdout[2])

\* 'Follower', 'Following', 'Biography'; '120', '85', 'Love travel'
ExampleFollower ==
    [x \in { K_Follower, K_Following } |->
        IF x = K_Follower THEN << "1", "2", "0" >> ELSE << "8", "5" >>]

ExampleBiography ==
    [x \in { K_Biography } |-> <<"L","o","v","e"," ","t","r","a","v","e","l">>]

\* C6: the parser processes the assignments of a line left to right (those of
\* its ' | '-separated sub-parts when the value contains ' | ': a sub-part with
\* a colon assigns its trimmed sub-key, one without assigns the outer key), the
\* last assignment to a key wins and every other key keeps its value; the two
\* examples parse as stated.
C6_SubPartsLastWins ==
    /\ [][ppc = "parse" /\ ln' = ln + 1 =>
            LET asg == Assignments(stdout[ln])
                hit(x) == { j \in 1..Len(asg) : asg[j][1] = x }
                final(x) == CHOOSE j \in hit(x) : \A m \in hit(x) : m <= j
            IN  /\ DOMAIN parsed' = (DOMAIN parsed) \cup AssignedKeys(stdout[ln])
                /\ \A x \in DOMAIN parsed' :
                      parsed'[x] = IF hit(x) # {} THEN asg[final(x)][2] ELSE parsed[x]]_vars
    /\ [](ppc = "returned" /\ stdout = << FollowerLine >> => parsed = ExampleFollower)
    /\ [](ppc = "returned" /\ stdout = << BiographyLine >> => parsed = ExampleBiography)

\* a line with a sub-part with a colon and one without has been parsed, and the
\* next line assigned one of its keys again
C6_Witness ==
    /\ ppc = "returned"
    /\ Len(stdout) = 2
    /\ KeyValue(stdout[1])
    /\ Contains(ValueOf(stdout[1]), Pipe)
    /\ \E p, q \in { Split(ValueOf(stdout[1]), Pipe)[j] :
                       j \in 1..Len(Split(ValueOf(stdout[1]), Pipe)) } :
          KeyValue(p) /\ ~KeyValue(q)
    /\ AssignedKeys(stdout[1]) \cap AssignedKeys(stdout[2]) # {}

====
